---------------------------- MODULE Spec2Model ----------------------------
(***************************************************************************)
(* Model of the auction engine's bid path.                                 *)
(*                                                                         *)
(*   SpecLot  one domain.AuctionLot aggregate receiving PlaceBid, Start,   *)
(*            Finish and Cancel calls (internal/auction/domain).           *)
(*   Spec     handler tasks running handleClientBidMessage, that is        *)
(*            PlaceBidUseCase.Execute against the postgres repositories,   *)
(*            then GetLotStateUseCase.Execute and the reply.               *)
(*                                                                         *)
(* Units.  Instants are seconds after the moment T at which the lot was    *)
(* seeded.  Money is counted in thousandths of a currency unit so that a   *)
(* float64 amount with a sub-cent part can be told from its NUMERIC(18,2)  *)
(* image in storage: 5000.00 is 5000000.                                   *)
(***************************************************************************)
EXTENDS Integers, Sequences, FiniteSets, TLC

VARIABLES
    clock,          \* what time.Now() returns
    al,             \* SpecLot: the aggregate under test
    call,           \* SpecLot: the last method call on al, its inputs and result
    auction_lots,   \* storage: committed auction_lots rows, by lot id
    bids,           \* storage: committed bids rows, in commit order
    rowLock,        \* storage: the transaction holding each lot row's lock
    task,           \* one record per handler task (go h.processMessage)
    Send,           \* per client, the outbound queue client.Send
    hubBroadcast,   \* messages BroadcastMessageToLot handed to the hub
    hub,            \* Hub.Run: where it is, what it holds, h.clients
    closed,         \* the clients whose Send channel has been closed
    conn,           \* per client: the connection and its two pumps
    listener,       \* ListenForMessages: where it is, the message it holds
    ctxDone,        \* the root context has been cancelled
    panicked,       \* a goroutine panicked: the process is gone
    socket,         \* per client, the frames WritePump has written to the connection
    wp              \* per client, WritePump's local state while it writes a frame

wirevars == <<socket, wp>>

hubvars == <<hub, closed, conn, listener, ctxDone, panicked, wirevars>>

vars == <<clock, al, call, auction_lots, bids, rowLock, task, Send, hubBroadcast,
          hubvars>>

-----------------------------------------------------------------------------
(* Bounds *)

MaxTicks == 2       \* the clock takes MaxTicks + 1 values
MaxTasks == 2       \* handler tasks spawned

(* Program constants *)

SeedInitialPrice == 5000000     \* 5000.00
SeedEndTime == 600              \* NOW() + INTERVAL '10 minutes'
SeedTimeExtension == 30         \* INTERVAL '30 seconds'
SendCapacity == 256             \* make(chan []byte, 256)
NullTime == -1                  \* a nil *time.Time / a NULL timestamptz

TickStep == SeedTimeExtension
FirstInstant == SeedEndTime - 2 * TickStep
Instants == {FirstInstant + TickStep * i : i \in 0..MaxTicks}
LastInstant == FirstInstant + TickStep * MaxTicks

LotIds == {"L1", "L2"}
Users == {"U1", "U2"}
Clients == {"c1", "c2", "c3"}
TaskIds == 1..MaxTasks

\* The client_bid frames the tasks are given: the client they arrived from
\* and their payload.  Lot L1 is in storage, lot L2 is not.
Frame(c, l, u, a) == [client |-> c, LotID |-> l, UserID |-> u, Amount |-> a]
Frames ==
    {Frame("c1", "L1", "U1", 5100000), Frame("c1", "L1", "U2", 5100000),
     Frame("c1", "L1", "U2", 5200000), Frame("c1", "L1", "U1", 5100004),
     Frame("c1", "L1", "U1", 4999990), Frame("c1", "L1", "U1", 0),
     Frame("c1", "L2", "U1", 5100000), Frame("c2", "L2", "U2", 5100000)}

-----------------------------------------------------------------------------
(* internal/auction/domain *)

StatePending == "pending"
StateActive == "active"
StateFinished == "finished"
StateCancelled == "cancelled"
AuctionLotState == {StatePending, StateActive, StateFinished, StateCancelled}

ErrLotNotFound == "auction lo not found"
ErrLotNotActive == "auction lot is not active"
ErrBidAmountTooLow == "bid amount is too low"
ErrInvalidAmount == "bid amount cannot be zero o less than zero"
ErrBidIncrementTooSmall == "bid increment is too small"
ErrLotAlreadyStartedOrFinished == "auction lot is already started or finished"
ErrLotAlreadyFinishedOrCancelled == "auction lot is already finished or cancelled"
Nil == "nil"

Unlocked == 0

NewBid(id, lotID, userID, amount, timestamp) ==
    [ID |-> id, LotID |-> lotID, UserID |-> userID, Amount |-> amount,
     Timestamp |-> timestamp]

NewAuctionLot(id, initialPrice, endTime, timeExtension) ==
    [ID |-> id,
     InitialPrice |-> initialPrice,
     CurrentPrice |-> initialPrice,
     EndTime |-> endTime,
     State |-> StatePending,
     LastBidTime |-> NullTime,
     TimeExtension |-> timeExtension,
     Bids |-> <<>>,
     mu |-> Unlocked]

\* Mutant: the state test lets a pending lot through.
NotActive_TerminalOnly(lot) == lot.State \in {StateFinished, StateCancelled}

\* The state test of PlaceBid: the bid is refused when it holds.
NotActive(lot) == lot.State # StateActive

\* Mutant: After() taken for "not before".
ExtendsAuction_NotBefore(lot, t) == t + lot.TimeExtension >= lot.EndTime

\* time.Now().Add(al.TimeExtension).After(al.EndTime), at the clock read t
ExtendsAuction(lot, t) == t + lot.TimeExtension > lot.EndTime

\* Mutant: a bid equal to the current price is let through.
AmountTooLow_Strict(lot, amount) == amount < lot.CurrentPrice

\* Mutant: PlaceBid has no amount test.
AmountTooLow_Never(lot, amount) == FALSE

\* The amount test of PlaceBid: the bid is refused when it holds.
AmountTooLow(lot, amount) == amount <= lot.CurrentPrice

\* AuctionLot.PlaceBid.  The method reads the clock three times: t1 is the
\* `now` that stamps the bid and LastBidTime, t2 the read of the soft-close
\* test, t3 the read the new EndTime is computed from (t1 <= t2 <= t3).  The
\* whole body runs under al.mu, released by the deferred Unlock.  A bid is
\* returned as a sequence of length 0 (nil) or 1.
PlaceBid(lot, userID, amount, minIncrement, t1, t2, t3, id) ==
    IF NotActive(lot)
    THEN [lot |-> lot, bid |-> <<>>, err |-> ErrLotNotActive]
    ELSE IF AmountTooLow(lot, amount)
    THEN [lot |-> lot, bid |-> <<>>, err |-> ErrBidAmountTooLow]
    ELSE LET newBid == NewBid(id, lot.ID, userID, amount, t1)
             endTime == IF ExtendsAuction(lot, t2)
                        THEN t3 + lot.TimeExtension
                        ELSE lot.EndTime
         IN  [lot |-> [lot EXCEPT !.EndTime = endTime,
                                  !.CurrentPrice = amount,
                                  !.LastBidTime = t1,
                                  !.Bids = Append(lot.Bids, newBid),
                                  !.mu = Unlocked],
              bid |-> <<newBid>>,
              err |-> Nil]

\* AuctionLot.Start
Start(lot) ==
    IF lot.State # StatePending
    THEN [lot |-> lot, err |-> ErrLotAlreadyStartedOrFinished]
    ELSE [lot |-> [lot EXCEPT !.State = StateActive], err |-> Nil]

\* Mutant: Finish refuses a finished or cancelled lot only, so a pending lot
\* is finished.
Finish_PendingToo(lot) ==
    IF lot.State = StateFinished \/ lot.State = StateCancelled
    THEN [lot |-> lot, err |-> ErrLotNotActive]
    ELSE [lot |-> [lot EXCEPT !.State = StateFinished], err |-> Nil]

\* AuctionLot.Finish
Finish(lot) ==
    IF lot.State # StateActive
    THEN [lot |-> lot, err |-> ErrLotNotActive]
    ELSE [lot |-> [lot EXCEPT !.State = StateFinished], err |-> Nil]

\* Mutant: Cancel refuses a cancelled lot only, so a finished lot is cancelled.
Cancel_CancelledOnly(lot) ==
    IF lot.State = StateCancelled
    THEN [lot |-> lot, err |-> ErrLotAlreadyFinishedOrCancelled]
    ELSE [lot |-> [lot EXCEPT !.State = StateCancelled], err |-> Nil]

\* AuctionLot.Cancel
Cancel(lot) ==
    IF lot.State = StateFinished \/ lot.State = StateCancelled
    THEN [lot |-> lot, err |-> ErrLotAlreadyFinishedOrCancelled]
    ELSE [lot |-> [lot EXCEPT !.State = StateCancelled], err |-> Nil]

-----------------------------------------------------------------------------
(* The clock.  The variable holds the last value time.Now() returned; a   *)
(* read returns that instant or a later one, up to LastInstant.            *)

Now == {t \in Instants : clock <= t}

\* The three successive clock reads of one PlaceBid call.
ClockReads ==
    {r \in Instants \X Instants \X Instants :
        clock <= r[1] /\ r[1] <= r[2] /\ r[2] <= r[3]}

-----------------------------------------------------------------------------
(* SpecLot: one aggregate, its four methods called in any order.  Each     *)
(* method holds al.mu from its first statement to its return, so a call is *)
(* one step.                                                               *)

MinIncrements == {0, 200000}
LotUsers == {"U1"}
LotAmounts == {4999990, 5100000, 5200000}
TimeExtensions == {0, TickStep, 2 * TickStep}

CallRecord(op, at, userID, amount, minIncrement, reads, before, bid, err) ==
    [op |-> op, at |-> at, userID |-> userID, amount |-> amount,
     minIncrement |-> minIncrement, reads |-> reads, before |-> before,
     bid |-> bid, err |-> err]

NoTasks == [t \in TaskIds |-> [pc |-> "unused"]]

\* NewHub, no connection yet, Run and ListenForMessages waiting in select.
NewHub == [pc |-> "select", item |-> <<>>, start |-> {}, todo |-> {}, sent |-> {},
           clients |-> <<>>]
NoConn == [state |-> "none", reader |-> "none", writer |-> "none"]
\* WritePump between two frames, and a connection nothing was written to.
NoWrite == [pc |-> "select", frame |-> <<>>, n |-> 0]
WireIdle ==
    /\ socket = [c \in Clients |-> <<>>]
    /\ wp = [c \in Clients |-> NoWrite]

HubIdle ==
    /\ hub = NewHub
    /\ closed = {}
    /\ conn = [c \in Clients |-> NoConn]
    /\ listener = [pc |-> "select", msg |-> <<>>]
    /\ ctxDone = FALSE
    /\ panicked = FALSE
    /\ WireIdle

InitLot ==
    /\ clock = FirstInstant
    /\ \E e \in Instants, x \in TimeExtensions :
          al = NewAuctionLot("L1", SeedInitialPrice, e, x)
    /\ call = CallRecord("NewAuctionLot", clock, "", 0, 0, <<>>, al, <<>>, Nil)
    /\ auction_lots = <<>>
    /\ bids = <<>>
    /\ rowLock = [l \in LotIds |-> 0]
    /\ task = NoTasks
    /\ Send = [c \in Clients |-> <<>>]
    /\ hubBroadcast = <<>>
    /\ HubIdle

\* Whether PlaceBid returns before its first time.Now(): the two rejections.
Rejects(lot, amount) ==
    PlaceBid(lot, "", amount, 0, clock, clock, clock, 0).err # Nil

LotPlaceBid ==
    \E u \in LotUsers, a \in LotAmounts, m \in MinIncrements :
        \E r \in IF Rejects(al, a) THEN {<<t, t, t>> : t \in Now} ELSE ClockReads :
            LET res == PlaceBid(al, u, a, m, r[1], r[2], r[3], Len(al.Bids) + 1)
            IN  /\ al' = res.lot
                /\ call' = CallRecord("PlaceBid", r[1], u, a, m,
                                      IF res.err = Nil THEN r ELSE <<>>,
                                      al, res.bid, res.err)
                /\ clock' = r[3]
                /\ UNCHANGED <<auction_lots, bids, rowLock, task, Send, hubBroadcast, hubvars>>

LotMethod(op, res) ==
    \E t \in Now :
        /\ al' = res.lot
        /\ call' = CallRecord(op, t, "", 0, 0, <<>>, al, <<>>, res.err)
        /\ clock' = t
        /\ UNCHANGED <<auction_lots, bids, rowLock, task, Send, hubBroadcast, hubvars>>

LotStart == LotMethod("Start", Start(al))
LotFinish == LotMethod("Finish", Finish(al))
LotCancel == LotMethod("Cancel", Cancel(al))

NextLot == LotPlaceBid \/ LotStart \/ LotFinish \/ LotCancel

SpecLot == InitLot /\ [][NextLot]_vars

-----------------------------------------------------------------------------
(* Storage: the auction_lots and bids tables behind the pgx pool.          *)

StorageError == "storage error"

\* A float64 bound to a NUMERIC(18,2) column is rounded to two decimals.
ToNumeric2(x) == ((x + 5) \div 10) * 10

\* The column values AuctionLotRepository.Save writes for a lot.
LotRow(lot) ==
    [id |-> lot.ID,
     initial_price |-> ToNumeric2(lot.InitialPrice),
     current_price |-> ToNumeric2(lot.CurrentPrice),
     end_time |-> lot.EndTime,
     state |-> lot.State,
     last_bid_time |-> lot.LastBidTime,
     time_extension |-> lot.TimeExtension]

\* The aggregate AuctionLotRepository.GetByID scans from a row: a new object
\* on every call, with its own zero-valued mutex and no Bids.
ScanLot(row) ==
    [ID |-> row.id,
     InitialPrice |-> row.initial_price,
     CurrentPrice |-> row.current_price,
     EndTime |-> row.end_time,
     State |-> row.state,
     LastBidTime |-> row.last_bid_time,
     TimeExtension |-> row.time_extension,
     Bids |-> <<>>,
     mu |-> Unlocked]

\* The column values BidRepository.Save writes for a bid.
BidRow(bid) ==
    [id |-> bid.ID, lot_id |-> bid.LotID, user_id |-> bid.UserID,
     amount |-> ToNumeric2(bid.Amount), timestamp |-> bid.Timestamp]

\* The row seed_data.sql inserts for the first lot, in state st.
SeedRow(st) ==
    [id |-> "L1",
     initial_price |-> SeedInitialPrice,
     current_price |-> SeedInitialPrice,
     end_time |-> SeedEndTime,
     state |-> st,
     last_bid_time |-> NullTime,
     time_extension |-> SeedTimeExtension]

\* Rows of bids for one lot, as positions in commit order.
BidsOfLot(l) == {i \in 1..Len(bids) : bids[i].lot_id = l}

\* ORDER BY timestamp DESC LIMIT 1: the rows the query may return.
LatestBids(l) ==
    {i \in BidsOfLot(l) : \A j \in BidsOfLot(l) : bids[j].timestamp <= bids[i].timestamp}

-----------------------------------------------------------------------------
(* Wire messages (internal/auction/infra/websocket/messages.go)            *)

MessageTypeServerLotUpdate == "server_lot_update"
MessageTypeServerError == "server_error"

ServerErrorMessage(text) == [Type |-> MessageTypeServerError, Error |-> text]

\* LotStateDTO as GetLotStateUseCase.Execute fills it from the lot alone.
LotStateDTO(lot) ==
    [LotID |-> lot.ID,
     InitialPrice |-> lot.InitialPrice,
     CurrentPrice |-> lot.CurrentPrice,
     EndTime |-> lot.EndTime,
     State |-> lot.State,
     LastBidAmount |-> 0,
     LastBidUserID |-> "",
     LastBidTime |-> lot.LastBidTime]

\* ... and after the latest bid was found.
WithLatestBid(dto, bid) ==
    [dto EXCEPT !.LastBidAmount = bid.amount,
                !.LastBidUserID = bid.user_id,
                !.LastBidTime = bid.timestamp]

ServerLotUpdateMessage(dto) ==
    [Type |-> MessageTypeServerLotUpdate,
     LotID |-> dto.LotID,
     CurrentPrice |-> dto.CurrentPrice,
     EndTime |-> dto.EndTime,
     State |-> dto.State,
     LastBidAmount |-> dto.LastBidAmount,
     LastBidUserID |-> dto.LastBidUserID,
     LastBidTime |-> dto.LastBidTime]

\* The lot id of the connection each client arrived on (/ws/auction/:lotid).
ClientLotID(c) == IF c = "c2" THEN "L2" ELSE "L1"

-----------------------------------------------------------------------------
(* Spec: handler tasks.  ListenForMessages starts one task per inbound     *)
(* message (go h.processMessage); a task runs handleClientBidMessage.      *)
(* Errors are sequences <<context, cause>>, as fmt.Errorf("...: %w") wraps *)
(* them; <<>> is a nil error.  A storage call returns a result or an       *)
(* error, as the repository interfaces of the domain package allow.        *)

IdleTask ==
    [pc |-> "idle",
     client |-> "",
     cmd |-> [LotID |-> "", UserID |-> "", Amount |-> 0],
     tx |-> "none",         \* none, open, committed, rolledback
     txBids |-> <<>>,       \* rows inserted by the open transaction
     txLot |-> <<>>,        \* the lot row written by the open transaction
     lot |-> <<>>,          \* the aggregate GetByID returned
     newBid |-> <<>>,       \* the bid PlaceBid returned
     reads |-> <<>>,        \* the clock reads of PlaceBid
     err |-> <<>>,          \* Execute's local variable err
     returned |-> FALSE,    \* Execute has returned ...
     retBid |-> <<>>,       \* ... this bid
     retErr |-> <<>>,       \* ... and this error
     dto |-> <<>>,          \* the LotStateDTO being assembled
     reply |-> <<>>,        \* the message the handler produced
     queued |-> FALSE]      \* whether its non-blocking send went through

ErrorsIs(e, target) == e # <<>> /\ e[Len(e)] = target

\* select { case client.Send <- data: default: }
CanSend(c) == Len(Send[c]) < SendCapacity
SendTo(c, msg) == [Send EXCEPT ![c] = IF CanSend(c) THEN Append(@, msg) ELSE @]

\* Mutant: the end of a transaction leaves its row locks in place.
Release_Never(t) == rowLock

\* tx.Rollback and tx.Commit both end the transaction's row locks.
Release(t) == [l \in LotIds |-> IF rowLock[l] = t THEN 0 ELSE rowLock[l]]

\* What Execute hands back to its caller.  Its results are unnamed, so the
\* values of the return statement stand whatever the deferred function
\* assigns to the local err afterwards.
ExecuteResult(returnBid, returnErr, deferredErr) ==
    [bid |-> returnBid, err |-> returnErr]

\* Mutant: the deferred function does not roll back on an error.
ExecuteFails_NoRollback(t, e, txAfter) ==
    LET c == task[t].client
        msg == ServerErrorMessage(e)
        res == ExecuteResult(<<>>, e, e)
    IN  /\ task' = [task EXCEPT ![t] =
                      [@ EXCEPT !.pc = "done", !.err = e,
                                !.lot = <<>>, !.newBid = <<>>,
                                !.returned = TRUE, !.retBid = res.bid,
                                !.retErr = res.err,
                                !.reply = <<msg>>, !.queued = CanSend(c)]]
        /\ Send' = SendTo(c, msg)
        /\ UNCHANGED rowLock

\* Execute returns (nil, e) from one of its error paths: the deferred function
\* sees err != nil and rolls back (txAfter), and handleClientBidMessage sends
\* e.Error() to the client.
ExecuteFails(t, e, txAfter) ==
    LET c == task[t].client
        msg == ServerErrorMessage(e)
        res == ExecuteResult(<<>>, e, e)
    IN  /\ task' = [task EXCEPT ![t] =
                      [@ EXCEPT !.pc = "done", !.err = e, !.tx = txAfter,
                                !.txBids = <<>>, !.txLot = <<>>,
                                !.lot = <<>>, !.newBid = <<>>,
                                !.returned = TRUE, !.retBid = res.bid,
                                !.retErr = res.err,
                                !.reply = <<msg>>, !.queued = CanSend(c)]]
        /\ Send' = SendTo(c, msg)
        /\ rowLock' = Release(t)

\* Mutant: the anti-spoof test is missing.
LotMismatch_Never(f) == FALSE

\* bidMsg.Payload.LotID.String() != client.LotID
LotMismatch(f) == f.LotID # ClientLotID(f.client)

\* processMessage / handleClientBidMessage up to the call of PlaceBid: the
\* frame is a well-formed client_bid; the anti-spoof test on the lot id.
ProcessMessage(t) ==
    /\ task[t].pc = "idle"
    /\ \A u \in TaskIds : u < t => task[u].pc # "idle"
    /\ \E f \in Frames :
          LET c == f.client
              cmd == [LotID |-> f.LotID, UserID |-> f.UserID, Amount |-> f.Amount]
              msg == ServerErrorMessage(<<"lot ID mismatch">>)
          IN  IF LotMismatch(f)
              THEN /\ task' = [task EXCEPT ![t] =
                                 [@ EXCEPT !.pc = "done", !.client = c, !.cmd = cmd,
                                           !.reply = <<msg>>, !.queued = CanSend(c)]]
                   /\ Send' = SendTo(c, msg)
              ELSE /\ task' = [task EXCEPT ![t] =
                                 [@ EXCEPT !.pc = "Execute", !.client = c, !.cmd = cmd]]
                   /\ UNCHANGED Send
    /\ UNCHANGED <<clock, al, call, auction_lots, bids, rowLock, hubBroadcast, hubvars>>

\* Mutant: the input check lets an amount of zero through.
InvalidAmount_NegativeOnly(cmd) == cmd.Amount < 0

\* Execute, step 1: if cmd.Amount <= 0
InvalidAmount(cmd) == cmd.Amount <= 0

\* Execute, steps 1 and 2: the amount check, then dbPool.BeginTx.
ExecuteBegin(t) ==
    /\ task[t].pc = "Execute"
    /\ IF InvalidAmount(task[t].cmd)
       THEN ExecuteFails(t, <<ErrInvalidAmount>>, "none")
       ELSE \/ /\ task' = [task EXCEPT ![t] = [@ EXCEPT !.pc = "GetByID", !.tx = "open"]]
               /\ UNCHANGED <<Send, rowLock>>
            \/ ExecuteFails(t, <<"failed to begin transaction", StorageError>>, "none")
    /\ UNCHANGED <<clock, al, call, auction_lots, bids, hubBroadcast, hubvars>>

\* Execute, step 3: lotRepo.GetByID, a query on the pool (not on tx), so it
\* reads the committed row.
ExecuteGetByID(t) ==
    /\ task[t].pc = "GetByID"
    /\ LET l == task[t].cmd.LotID
       IN  \/ /\ l \in DOMAIN auction_lots
              /\ task' = [task EXCEPT ![t] =
                            [@ EXCEPT !.pc = "PlaceBid",
                                      !.lot = <<ScanLot(auction_lots[l])>>]]
              /\ UNCHANGED <<Send, rowLock>>
           \/ /\ l \notin DOMAIN auction_lots
              /\ ExecuteFails(t, <<"failed to get auction lot", ErrLotNotFound>>,
                              "rolledback")
           \/ ExecuteFails(t, <<"failed to get auction lot", StorageError>>,
                           "rolledback")
    /\ UNCHANGED <<clock, al, call, auction_lots, bids, hubBroadcast, hubvars>>

\* Execute, step 4: lot.PlaceBid(cmd.UserID, cmd.Amount, 0.0) on the loaded
\* object.  The object is private to the task, so its mutex is free.
ExecutePlaceBid(t) ==
    /\ task[t].pc = "PlaceBid"
    /\ LET lot == task[t].lot[1]
           cmd == task[t].cmd
       IN  IF Rejects(lot, cmd.Amount)
           THEN /\ ExecuteFails(t, <<"bid failed for lot",
                                     PlaceBid(lot, cmd.UserID, cmd.Amount, 0,
                                              clock, clock, clock, t).err>>,
                                "rolledback")
                /\ UNCHANGED clock
           ELSE \E r \in ClockReads :
                  LET res == PlaceBid(lot, cmd.UserID, cmd.Amount, 0,
                                      r[1], r[2], r[3], t)
                  IN  /\ task' = [task EXCEPT ![t] =
                                    [@ EXCEPT !.pc = "SaveBid",
                                              !.lot = <<res.lot>>,
                                              !.newBid = res.bid,
                                              !.reads = r]]
                      /\ clock' = r[3]
                      /\ UNCHANGED <<Send, rowLock>>
    /\ UNCHANGED <<al, call, auction_lots, bids, hubBroadcast, hubvars>>

\* Execute, step 5a: bidRepo.Save(ctx, tx, newBid).  Both outcomes of the
\* domain.BidRepository contract are taken.  (The postgres statement names
\* six placeholders and passes five arguments, so against that implementation
\* only the failing outcome occurs; the successful one is kept so that the
\* steps after it are covered.)
ExecuteSaveBid(t) ==
    /\ task[t].pc = "SaveBid"
    /\ \/ /\ task' = [task EXCEPT ![t] =
                        [@ EXCEPT !.pc = "SaveLot",
                                  !.txBids = <<BidRow(task[t].newBid[1])>>]]
          /\ UNCHANGED <<Send, rowLock>>
       \/ ExecuteFails(t, <<"failed to save new bid", StorageError>>, "rolledback")
    /\ UNCHANGED <<clock, al, call, auction_lots, bids, hubBroadcast, hubvars>>

\* Execute, step 5b: lotRepo.Save(ctx, tx, lot).  The upsert locks the lot
\* row until the transaction ends; it waits while another transaction holds
\* the lock.
ExecuteSaveLot(t) ==
    /\ task[t].pc = "SaveLot"
    /\ LET l == task[t].cmd.LotID
       IN  \/ /\ rowLock[l] = 0
              /\ task' = [task EXCEPT ![t] =
                            [@ EXCEPT !.pc = "Commit",
                                      !.txLot = <<LotRow(task[t].lot[1])>>]]
              /\ rowLock' = [rowLock EXCEPT ![l] = t]
              /\ UNCHANGED Send
           \/ ExecuteFails(t, <<"failed to save updated auction lot", StorageError>>,
                           "rolledback")
    /\ UNCHANGED <<clock, al, call, auction_lots, bids, hubBroadcast, hubvars>>

\* Mutant: the commit publishes the bid row and loses the lot row.
CommittedLots_BidOnly(t) == auction_lots

\* The rows the transaction of task t makes visible when it commits.
CommittedLots(t) ==
    IF task[t].txLot = <<>> THEN auction_lots
    ELSE [auction_lots EXCEPT ![task[t].txLot[1].id] = task[t].txLot[1]]
CommittedBids(t) == bids \o task[t].txBids

\* Execute, step 6: `return newBid, nil`, then the deferred function with
\* err == nil calls tx.Commit.  Back in handleClientBidMessage the returned
\* error decides between sendErrorToClient and GetLotState.
ExecuteCommit(t) ==
    /\ task[t].pc = "Commit"
    /\ \E committed \in BOOLEAN :
          LET e == IF committed THEN <<>>
                   ELSE <<"failed to commit transaction", StorageError>>
              res == ExecuteResult(task[t].newBid, <<>>, e)
              msg == ServerErrorMessage(res.err)
          IN  /\ auction_lots' = IF committed THEN CommittedLots(t) ELSE auction_lots
              /\ bids' = IF committed THEN CommittedBids(t) ELSE bids
              /\ rowLock' = Release(t)
              /\ task' = [task EXCEPT ![t] =
                            [@ EXCEPT !.pc = IF res.err = <<>> THEN "GetLotState"
                                                               ELSE "done",
                                      !.err = e,
                                      !.tx = IF committed THEN "committed"
                                                          ELSE "rolledback",
                                      !.txBids = <<>>, !.txLot = <<>>,
                                      !.lot = <<>>, !.newBid = <<>>,
                                      !.returned = TRUE, !.retBid = res.bid,
                                      !.retErr = res.err,
                                      !.reply = IF res.err = <<>> THEN <<>> ELSE <<msg>>,
                                      !.queued = res.err # <<>> /\ CanSend(task[t].client)]]
              /\ Send' = IF res.err = <<>> THEN Send ELSE SendTo(task[t].client, msg)
    /\ UNCHANGED <<clock, al, call, hubBroadcast, hubvars>>

\* GetLotStateUseCase.Execute, first query: lotRepo.GetByID.
GetLotStateGetByID(t) ==
    /\ task[t].pc = "GetLotState"
    /\ LET l == task[t].cmd.LotID
           c == task[t].client
           msg == ServerErrorMessage(<<"failed to get updated lost state">>)
       IN  \/ /\ l \in DOMAIN auction_lots
              /\ task' = [task EXCEPT ![t] =
                            [@ EXCEPT !.pc = "GetLatestBid",
                                      !.dto = <<LotStateDTO(ScanLot(auction_lots[l]))>>]]
              /\ UNCHANGED Send
           \/ /\ task' = [task EXCEPT ![t] =
                            [@ EXCEPT !.pc = "done", !.reply = <<msg>>,
                                      !.queued = CanSend(c)]]
              /\ Send' = SendTo(c, msg)
    /\ UNCHANGED <<clock, al, call, auction_lots, bids, rowLock, hubBroadcast, hubvars>>

\* GetLotStateUseCase.Execute, second query: bidRepo.GetLatestBidByLotID.
\* The DTO takes the bid's fields only when the query returned a bid and no
\* error.
GetLotStateLatestBid(t) ==
    /\ task[t].pc = "GetLatestBid"
    /\ LET l == task[t].cmd.LotID
       IN  \/ \E i \in LatestBids(l) :
                 task' = [task EXCEPT ![t] =
                            [@ EXCEPT !.pc = "Broadcast",
                                      !.dto = <<WithLatestBid(task[t].dto[1], bids[i])>>]]
           \/ task' = [task EXCEPT ![t] = [@ EXCEPT !.pc = "Broadcast"]]
    /\ UNCHANGED <<clock, al, call, auction_lots, bids, rowLock, Send, hubBroadcast, hubvars>>

\* handleClientBidMessage, the update: the message is built from the DTO and
\* passed to hub.BroadcastMessageToLot, a non-blocking send on an unbuffered
\* channel: the hub takes it when it is waiting in its select, else it is
\* dropped.
HandlerBroadcast(t) ==
    /\ task[t].pc = "Broadcast"
    /\ \E hubReady \in BOOLEAN :
          LET msg == ServerLotUpdateMessage(task[t].dto[1])
          IN  /\ task' = [task EXCEPT ![t] =
                            [@ EXCEPT !.pc = "done", !.dto = <<>>,
                                      !.reply = <<msg>>, !.queued = hubReady]]
              /\ hubBroadcast' =
                    IF hubReady
                    THEN Append(hubBroadcast,
                                [LotID |-> ClientLotID(task[t].client), Data |-> msg])
                    ELSE hubBroadcast
    /\ UNCHANGED <<clock, al, call, auction_lots, bids, rowLock, Send, hubvars>>

Init ==
    /\ clock = FirstInstant
    /\ al = NewAuctionLot("L1", SeedInitialPrice, SeedEndTime, SeedTimeExtension)
    /\ call = CallRecord("NewAuctionLot", clock, "", 0, 0, <<>>, al, <<>>, Nil)
    /\ \E st \in AuctionLotState : auction_lots = ("L1" :> SeedRow(st))
    /\ bids = <<>>
    /\ rowLock = [l \in LotIds |-> 0]
    /\ task = [t \in TaskIds |-> IdleTask]
    /\ Send = [c \in Clients |-> <<>>]
    /\ hubBroadcast = <<>>
    /\ HubIdle

\* One step of handler task t.
TaskNext(t) ==
    \/ ProcessMessage(t)
    \/ ExecuteBegin(t)
    \/ ExecuteGetByID(t)
    \/ ExecutePlaceBid(t)
    \/ ExecuteSaveBid(t)
    \/ ExecuteSaveLot(t)
    \/ ExecuteCommit(t)
    \/ GetLotStateGetByID(t)
    \/ GetLotStateLatestBid(t)
    \/ HandlerBroadcast(t)

Next == \E t \in TaskIds : TaskNext(t)

Spec == Init /\ [][Next]_vars

-----------------------------------------------------------------------------
(* SpecTx: the handler tasks of Spec, with a panic possible in any step of *)
(* Execute that runs between BeginTx and the return.                       *)

\* No goroutine has panicked: the process is alive.
Running == ~panicked

\* The steps of Execute a panic can come from while the transaction is open.
TxSteps == {"GetByID", "PlaceBid", "SaveBid", "SaveLot"}

\* Execute's deferred function, branch r := recover(); r != nil: the
\* transaction is rolled back and the panic is raised again.  processMessage
\* runs in a goroutine that does not recover, so the process ends.
ExecutePanics(t) ==
    /\ Running
    /\ task[t].pc \in TxSteps
    /\ task' = [task EXCEPT ![t] =
                  [@ EXCEPT !.pc = "panicked", !.tx = "rolledback",
                            !.txBids = <<>>, !.txLot = <<>>,
                            !.lot = <<>>, !.newBid = <<>>]]
    /\ rowLock' = Release(t)
    /\ panicked' = TRUE
    /\ UNCHANGED <<clock, al, call, auction_lots, bids, Send, hubBroadcast,
                   hub, closed, conn, listener, ctxDone, wirevars>>

NextTx ==
    \/ Running /\ Next
    \/ \E t \in TaskIds : ExecutePanics(t)

SpecTx == Init /\ [][NextTx]_vars

-----------------------------------------------------------------------------
(* SpecHub: the hub, the connections with their pumps, the handler's       *)
(* listen loop and its tasks (internal/shared/websocket/hub.go,            *)
(* httpserver/server.go, auction/infra/websocket/handlers.go).  The        *)
(* channels register, unregister, broadcast and InboundMessages are        *)
(* unbuffered: a send goes through only while the receiver is waiting in   *)
(* its select, and the receiver then holds the item until it is back in    *)
(* its select.  What PlaceBidUseCase.Execute and GetLotState return is an  *)
(* input here; Spec has their steps.                                       *)


\* h.clients[l], empty when the key is absent.
Group(l) == IF l \in DOMAIN hub.clients THEN hub.clients[l] ELSE {}

\* Run is waiting in its select / ListenForMessages is.
HubWaiting == hub.pc = "select"
ListenerWaiting == listener.pc = "select"

\* Mutant: a select without its default case, which waits for the receiver.
SelectDefault_Blocking(ready) == ready

\* select { case ch <- v: ... default: ... }: whether the caller gets past
\* it, given whether the receiver is ready.
SelectDefault(ready) == TRUE

\* Mutant: a broadcast ranges over the clients of every lot.
HubTakes_AllLots(pc, item) ==
    IF pc = "broadcast"
    THEN [hub EXCEPT !.pc = pc, !.item = item,
                     !.start = UNION {Group(l) : l \in LotIds},
                     !.todo = UNION {Group(l) : l \in LotIds}, !.sent = {}]
    ELSE [hub EXCEPT !.pc = pc, !.item = item]

\* The hub after it received item on one of its channels.  For a broadcast
\* the range statement fixes the clients it is going to visit.
HubTakes(pc, item) ==
    IF pc = "broadcast"
    THEN [hub EXCEPT !.pc = pc, !.item = item, !.start = Group(item.LotID),
                     !.todo = Group(item.LotID), !.sent = {}]
    ELSE [hub EXCEPT !.pc = pc, !.item = item]

\* Hub.RegisterClient, Hub.UnregisterClient, Hub.BroadcastMessageToLot: the
\* hub they leave behind.
RegisterClient(c) == IF HubWaiting THEN HubTakes("register", c) ELSE hub
UnregisterClient(c) == IF HubWaiting THEN HubTakes("unregister", c) ELSE hub
BroadcastMessageToLot(l, data) ==
    IF HubWaiting THEN HubTakes("broadcast", [LotID |-> l, Data |-> data]) ELSE hub

\* h.clients with c added to / deleted from the set of lot l.
WithClient(l, c) ==
    IF l \in DOMAIN hub.clients
    THEN [hub.clients EXCEPT ![l] = @ \cup {c}]
    ELSE hub.clients @@ (l :> {c})
WithoutClient(l, c) == [hub.clients EXCEPT ![l] = @ \ {c}]
WithoutGroup(l) == [k \in DOMAIN hub.clients \ {l} |-> hub.clients[k]]

\* The websocket route: a Client is made, RegisterClient is called (on
\* failure it closes the connection), then both pumps are started.
Connect(c) ==
    /\ Running
    /\ conn[c].state = "none"
    /\ SelectDefault(HubWaiting)
    /\ hub' = RegisterClient(c)
    /\ conn' = [conn EXCEPT ![c] =
                  [state |-> IF HubWaiting THEN "open" ELSE "closed",
                   reader |-> "running", writer |-> "running"]]
    /\ UNCHANGED <<clock, al, call, auction_lots, bids, rowLock, task, Send,
                   hubBroadcast, closed, listener, ctxDone, panicked,
                   wirevars>>

\* Run, case client := <-h.register
HubRegister ==
    /\ Running
    /\ hub.pc = "register"
    /\ hub' = [hub EXCEPT !.pc = "select", !.item = <<>>,
                          !.clients = WithClient(ClientLotID(hub.item), hub.item)]
    /\ UNCHANGED <<clock, al, call, auction_lots, bids, rowLock, task, Send,
                   hubBroadcast, closed, conn, listener, ctxDone, panicked,
                   wirevars>>

\* close(client.Send) on a queue that is already closed panics; Run does not
\* recover, so the process ends.
ClosePanics(c) == c \in closed

\* Mutant: the unregister case has no membership test.
InGroup_Always(c, l) == TRUE

\* if clients, ok := h.clients[client.LotID]; ok {
\*     if _, ok := clients[client]; ok {
InGroup(c, l) == c \in Group(l)

\* Run, case client := <-h.unregister
HubUnregister ==
    /\ Running
    /\ hub.pc = "unregister"
    /\ LET c == hub.item
           l == ClientLotID(c)
       IN  IF InGroup(c, l)
           THEN IF ClosePanics(c)
                THEN /\ hub' = [hub EXCEPT !.pc = "panicked"]
                     /\ panicked' = TRUE
                     /\ UNCHANGED closed
                ELSE /\ hub' = [hub EXCEPT !.pc = "select", !.item = <<>>,
                                           !.clients = IF Group(l) \subseteq {c}
                                                       THEN WithoutGroup(l)
                                                       ELSE WithoutClient(l, c)]
                     /\ closed' = closed \cup {c}
                     /\ UNCHANGED panicked
           ELSE /\ hub' = [hub EXCEPT !.pc = "select", !.item = <<>>]
                /\ UNCHANGED <<closed, panicked>>
    /\ UNCHANGED <<clock, al, call, auction_lots, bids, rowLock, task, Send,
                   hubBroadcast, conn, listener, ctxDone, wirevars>>

\* Mutant: the range loop is left at the first eviction.
Remaining_StopAtEviction(todo, c, evicted) == IF evicted THEN {} ELSE todo \ {c}

\* The clients the range loop has still to visit after it visited c.
Remaining(todo, c, evicted) == todo \ {c}

\* Run, case message := <-h.broadcast: one iteration of the range loop, or
\* its end.  The inner select enqueues on client.Send when there is room and
\* otherwise closes the queue and deletes the client from the lot's set (the
\* set itself is kept).
HubBroadcast ==
    /\ Running
    /\ hub.pc = "broadcast"
    /\ IF hub.todo = {}
       THEN /\ hub' = [hub EXCEPT !.pc = "select", !.item = <<>>,
                                  !.start = {}, !.sent = {}]
            /\ UNCHANGED <<Send, closed, panicked>>
       ELSE \E c \in hub.todo :
              IF CanSend(c)
              THEN /\ Send' = [Send EXCEPT ![c] = Append(@, hub.item.Data)]
                   /\ hub' = [hub EXCEPT !.todo = Remaining(hub.todo, c, FALSE),
                                         !.sent = @ \cup {c}]
                   /\ UNCHANGED <<closed, panicked>>
              ELSE IF ClosePanics(c)
              THEN /\ hub' = [hub EXCEPT !.pc = "panicked"]
                   /\ panicked' = TRUE
                   /\ UNCHANGED <<Send, closed>>
              ELSE /\ closed' = closed \cup {c}
                   /\ hub' = [hub EXCEPT !.todo = Remaining(hub.todo, c, TRUE),
                                         !.clients = WithoutClient(hub.item.LotID, c)]
                   /\ UNCHANGED <<Send, panicked>>
    /\ UNCHANGED <<clock, al, call, auction_lots, bids, rowLock, task,
                   hubBroadcast, conn, listener, ctxDone, wirevars>>

\* Mutant: Run's select has no ctx.Done case.
HubShutdown_NoCase == FALSE /\ UNCHANGED vars

\* Run, case <-ctx.Done(): return.
HubShutdown ==
    /\ Running
    /\ HubWaiting
    /\ ctxDone
    /\ hub' = [hub EXCEPT !.pc = "exited"]
    /\ UNCHANGED <<clock, al, call, auction_lots, bids, rowLock, task, Send,
                   hubBroadcast, closed, conn, listener, ctxDone, panicked,
                   wirevars>>

\* What the data of a frame turns out to be in processMessage and
\* handleClientBidMessage.
FrameKinds == {"malformed", "unknown", "badbid", "mismatch", "bid"}

\* The handler tasks of SpecHub: the frames it follows to their end.
HubTasks == {1}

\* A handler task is free for the next frame.
IdleTasks == {t \in HubTasks : task[t].pc = "idle"}

\* ReadPump: a frame is read and offered to InboundMessages; it is dropped
\* when ListenForMessages is not waiting.
ReadPumpFrame(c) ==
    /\ Running
    /\ conn[c].reader = "running"
    /\ conn[c].state = "open"
    /\ IdleTasks # {}
    /\ SelectDefault(ListenerWaiting)
    /\ listener' = IF ListenerWaiting
                    THEN [pc |-> "spawn", msg |-> <<[Client |-> c]>>]
                    ELSE listener
    /\ UNCHANGED <<clock, al, call, auction_lots, bids, rowLock, task, Send,
                   hubBroadcast, hub, closed, conn, ctxDone, panicked,
                   wirevars>>

\* ReadPump returns (read error, close frame, deadline, or ctx.Done seen at
\* the top of the loop); its deferred function calls UnregisterClient and
\* closes the connection.
ReadPumpExit(c) ==
    /\ Running
    /\ conn[c].reader = "running"
    /\ SelectDefault(HubWaiting)
    /\ hub' = UnregisterClient(c)
    /\ conn' = [conn EXCEPT ![c] = [@ EXCEPT !.state = "closed", !.reader = "exited"]]
    /\ UNCHANGED <<clock, al, call, auction_lots, bids, rowLock, task, Send,
                   hubBroadcast, closed, listener, ctxDone, panicked,
                   wirevars>>

\* WritePump, case message, ok := <-c.Send with ok: the message and the
\* len(c.Send) messages queued behind it are written as one frame.
WritePumpWrite(c) ==
    /\ Running
    /\ conn[c].writer = "running"
    /\ conn[c].state = "open"
    /\ Send[c] # <<>>
    /\ Send' = [Send EXCEPT ![c] = <<>>]
    /\ UNCHANGED <<clock, al, call, auction_lots, bids, rowLock, task,
                   hubBroadcast, hubvars>>

\* WritePump returns: the queue was closed and is drained (closedQueue), or
\* a write failed, or ctx.Done; its deferred function calls UnregisterClient
\* and closes the connection.
WritePumpExit(c) ==
    /\ Running
    /\ conn[c].writer = "running"
    /\ \E closedQueue \in BOOLEAN :
          closedQueue => (c \in closed /\ Send[c] = <<>>)
    /\ SelectDefault(HubWaiting)
    /\ hub' = UnregisterClient(c)
    /\ conn' = [conn EXCEPT ![c] = [@ EXCEPT !.state = "closed", !.writer = "exited"]]
    /\ UNCHANGED <<clock, al, call, auction_lots, bids, rowLock, task, Send,
                   hubBroadcast, closed, listener, ctxDone, panicked,
                   wirevars>>

\* ListenForMessages, case msg := <-h.hub.InboundMessages:
\* go h.processMessage(ctx, msg.Client, msg.Data)
ListenerSpawn ==
    /\ Running
    /\ listener.pc = "spawn"
    /\ \E t \in IdleTasks :
          /\ \A u \in IdleTasks : t <= u
          /\ task' = [task EXCEPT ![t] =
                        [@ EXCEPT !.pc = "process",
                                  !.client = listener.msg[1].Client]]
    /\ listener' = [pc |-> "select", msg |-> <<>>]
    /\ UNCHANGED <<clock, al, call, auction_lots, bids, rowLock, Send,
                   hubBroadcast, hub, closed, conn, ctxDone, panicked,
                   wirevars>>

\* ListenForMessages, case <-ctx.Done(): return.
ListenerExit ==
    /\ Running
    /\ ListenerWaiting
    /\ ctxDone
    /\ listener' = [pc |-> "exited", msg |-> <<>>]
    /\ UNCHANGED <<clock, al, call, auction_lots, bids, rowLock, task, Send,
                   hubBroadcast, hub, closed, conn, ctxDone, panicked,
                   wirevars>>

\* main returns: the deferred cancel() fires the root context.
cancel ==
    /\ Running
    /\ ~ctxDone
    /\ ctxDone' = TRUE
    /\ UNCHANGED <<clock, al, call, auction_lots, bids, rowLock, task, Send,
                   hubBroadcast, hub, closed, conn, listener, panicked,
                   wirevars>>

\* The text of the server_error each kind of bad frame is answered with
\* (processMessage, handleClientBidMessage).
ErrorText(kind) ==
    CASE kind = "malformed" -> "invalid message format"
      [] kind = "unknown" -> "unknown message type"
      [] kind = "badbid" -> "invalid bid message format"
      [] kind = "mismatch" -> "lot ID mismatch"
      [] kind = "rejected" -> "place bid failed"
      [] kind = "nostate" -> "failed to get updated lost state"

\* Mutant: a send on a closed queue is taken for a full queue.
SendPanics_Never(c) == FALSE

\* client.Send <- data on a closed channel panics, inside a select too; the
\* panic of a goroutine that does not recover ends the process.
SendPanics(c) == c \in closed

\* sendErrorToClient as the last call of task t.
sendErrorToClient(t, text) ==
    LET c == task[t].client
        msg == ServerErrorMessage(<<text>>)
    IN  IF SendPanics(c)
        THEN /\ panicked' = TRUE
             /\ UNCHANGED <<task, Send>>
        ELSE /\ task' = [task EXCEPT ![t] =
                           [@ EXCEPT !.pc = "done", !.reply = <<msg>>,
                                     !.queued = CanSend(c)]]
             /\ Send' = SendTo(c, msg)
             /\ UNCHANGED panicked

\* The update task t broadcasts after its bid was committed; the price tells
\* the updates of different tasks apart.
HubUpdate(t) ==
    LET l == ClientLotID(task[t].client)
        lot == [NewAuctionLot(l, SeedInitialPrice, SeedEndTime, SeedTimeExtension)
                  EXCEPT !.State = StateActive,
                         !.CurrentPrice = SeedInitialPrice + t * 100000,
                         !.LastBidTime = FirstInstant]
        bid == BidRow(NewBid(t, l, "u1", lot.CurrentPrice, FirstInstant))
    IN  ServerLotUpdateMessage(WithLatestBid(LotStateDTO(lot), bid))

\* What PlaceBid and GetLotState make of a well-formed bid: PlaceBid fails
\* (rejected), GetLotState fails (nostate), or the update is built.
BidOutcomes == {"rejected", "nostate", "update"}

\* processMessage run by task t, with the use cases reduced to their outcome.
HubProcessMessage(t) ==
    /\ Running
    /\ task[t].pc = "process"
    /\ \E k \in FrameKinds, o \in BidOutcomes :
          IF k # "bid"
          THEN /\ sendErrorToClient(t, ErrorText(k))
               /\ UNCHANGED hub
          ELSE IF o # "update"
               THEN /\ sendErrorToClient(t, ErrorText(o))
                    /\ UNCHANGED hub
               ELSE /\ hub' = BroadcastMessageToLot(ClientLotID(task[t].client),
                                                   HubUpdate(t))
                    /\ task' = [task EXCEPT ![t] =
                                  [@ EXCEPT !.pc = "done", !.returned = TRUE,
                                            !.retBid = <<t>>,
                                            !.reply = <<HubUpdate(t)>>,
                                            !.queued = HubWaiting]]
                    /\ UNCHANGED <<Send, panicked>>
    /\ UNCHANGED <<clock, al, call, auction_lots, bids, rowLock, hubBroadcast,
                   closed, conn, listener, ctxDone,
                   wirevars>>

\* A queue holding n messages the writer has not taken yet.
Backlog(n) == [i \in 1..n |-> "backlog"]

\* A client that registered and whose pumps run.
OpenConn == [state |-> "open", reader |-> "running", writer |-> "running"]

\* The server at some moment of its life: the two clients of lot L1 are
\* registered and the client of lot L2 has not connected yet; the queue of
\* c1 is empty, or full because its writer has fallen behind; nothing is in
\* flight.
InitHub ==
    /\ clock = FirstInstant
    /\ al = NewAuctionLot("L1", SeedInitialPrice, SeedEndTime, SeedTimeExtension)
    /\ call = CallRecord("NewAuctionLot", clock, "", 0, 0, <<>>, al, <<>>, Nil)
    /\ auction_lots = ("L1" :> SeedRow(StateActive))
    /\ bids = <<>>
    /\ rowLock = [l \in LotIds |-> 0]
    /\ task = [t \in TaskIds |-> IdleTask]
    /\ hubBroadcast = <<>>
    /\ conn = [c \in Clients |-> IF ClientLotID(c) = "L1" THEN OpenConn ELSE NoConn]
    /\ \E n \in {0, SendCapacity} :
          Send = [c \in Clients |-> IF c = "c1" THEN Backlog(n) ELSE <<>>]
    /\ hub = [NewHub EXCEPT !.clients =
                ("L1" :> {c \in Clients : ClientLotID(c) = "L1"})]
    /\ closed = {}
    /\ listener = [pc |-> "select", msg |-> <<>>]
    /\ ctxDone = FALSE
    /\ panicked = FALSE
    /\ WireIdle

NextHub ==
    \/ \E c \in Clients : Connect(c)
    \/ HubRegister
    \/ HubUnregister
    \/ HubBroadcast
    \/ HubShutdown
    \/ \E c \in Clients : ReadPumpFrame(c)
    \/ \E c \in Clients : ReadPumpExit(c)
    \/ \E c \in Clients : WritePumpWrite(c)
    \/ \E c \in Clients : WritePumpExit(c)
    \/ ListenerSpawn
    \/ ListenerExit
    \/ \E t \in HubTasks : HubProcessMessage(t)
    \/ cancel

SpecHub == InitHub /\ [][NextHub]_vars

-----------------------------------------------------------------------------
(* SpecWrite: the way of a message from the hub to the socket.  Handler    *)
(* tasks broadcast updates and send errors, the hub fills the clients'     *)
(* queues, and WritePump is followed statement by statement: the receive   *)
(* of the first message, n := len(c.Send), the drain of n messages into    *)
(* the same frame, w.Close().                                              *)

\* Mutant: the channel hands out its newest element first.
Receive_Newest(q) == [msg |-> q[Len(q)], rest |-> SubSeq(q, 1, Len(q) - 1)]

\* msg := <-c.Send on a buffered channel that holds q.
Receive(q) == [msg |-> Head(q), rest |-> Tail(q)]

\* WritePump, case message, ok := <-c.Send with ok: NextWriter,
\* w.Write(message), n := len(c.Send).
WritePumpReceive(c) ==
    /\ Running
    /\ conn[c].writer = "running"
    /\ conn[c].state = "open"
    /\ wp[c].pc = "select"
    /\ Send[c] # <<>>
    /\ Send' = [Send EXCEPT ![c] = Receive(@).rest]
    /\ wp' = [wp EXCEPT ![c] = [pc |-> "drain", frame |-> <<Receive(Send[c]).msg>>,
                                n |-> Len(Receive(Send[c]).rest)]]
    /\ UNCHANGED <<clock, al, call, auction_lots, bids, rowLock, task,
                   hubBroadcast, hub, closed, conn, listener, ctxDone, panicked,
                   socket>>

\* WritePump, one turn of for range n: w.Write('\n'), msg, ok := <-c.Send,
\* w.Write(msg); the loop is left when the channel is closed and empty.
WritePumpDrain(c) ==
    /\ Running
    /\ wp[c].pc = "drain"
    /\ wp[c].n > 0
    /\ IF Send[c] = <<>>
       THEN /\ wp' = [wp EXCEPT ![c] = [@ EXCEPT !.n = 0]]
            /\ UNCHANGED Send
       ELSE /\ Send' = [Send EXCEPT ![c] = Receive(@).rest]
            /\ wp' = [wp EXCEPT ![c] = [@ EXCEPT !.frame = Append(@, Receive(Send[c]).msg),
                                                 !.n = @ - 1]]
    /\ UNCHANGED <<clock, al, call, auction_lots, bids, rowLock, task,
                   hubBroadcast, hub, closed, conn, listener, ctxDone, panicked,
                   socket>>

\* WritePump, w.Close() without error: the frame is on the connection.
WritePumpClose(c) ==
    /\ Running
    /\ wp[c].pc = "drain"
    /\ wp[c].n = 0
    /\ socket' = [socket EXCEPT ![c] = Append(@, wp[c].frame)]
    /\ wp' = [wp EXCEPT ![c] = NoWrite]
    /\ UNCHANGED <<clock, al, call, auction_lots, bids, rowLock, task, Send,
                   hubBroadcast, hub, closed, conn, listener, ctxDone, panicked>>

\* WritePump, w.Close() with an error: return; the frame is lost and the
\* deferred function calls UnregisterClient and closes the connection.
WritePumpError(c) ==
    /\ Running
    /\ wp[c].pc = "drain"
    /\ wp[c].n = 0
    /\ wp' = [wp EXCEPT ![c] = NoWrite]
    /\ SelectDefault(HubWaiting)
    /\ hub' = UnregisterClient(c)
    /\ conn' = [conn EXCEPT ![c] = [@ EXCEPT !.state = "closed", !.writer = "exited"]]
    /\ UNCHANGED <<clock, al, call, auction_lots, bids, rowLock, task, Send,
                   hubBroadcast, closed, listener, ctxDone, panicked, socket>>

\* The clients of SpecWrite's frames.
Bidders == {"c1", "c3"}

\* The two clients of lot L1 are registered with empty queues, and each
\* handler task has been started for a frame of one of them.
InitWrite ==
    /\ clock = FirstInstant
    /\ al = NewAuctionLot("L1", SeedInitialPrice, SeedEndTime, SeedTimeExtension)
    /\ call = CallRecord("NewAuctionLot", clock, "", 0, 0, <<>>, al, <<>>, Nil)
    /\ auction_lots = ("L1" :> SeedRow(StateActive))
    /\ bids = <<>>
    /\ rowLock = [l \in LotIds |-> 0]
    /\ \E who \in [TaskIds -> Bidders] :
          task = [t \in TaskIds |->
                    [IdleTask EXCEPT !.pc = "process", !.client = who[t]]]
    /\ hubBroadcast = <<>>
    /\ conn = [c \in Clients |-> IF ClientLotID(c) = "L1" THEN OpenConn ELSE NoConn]
    /\ Send = [c \in Clients |-> <<>>]
    /\ hub = [NewHub EXCEPT !.clients =
                ("L1" :> {c \in Clients : ClientLotID(c) = "L1"})]
    /\ closed = {}
    /\ listener = [pc |-> "select", msg |-> <<>>]
    /\ ctxDone = FALSE
    /\ panicked = FALSE
    /\ WireIdle

NextWrite ==
    \/ \E t \in TaskIds : HubProcessMessage(t)
    \/ HubBroadcast
    \/ HubUnregister
    \/ \E c \in Clients : WritePumpReceive(c)
    \/ \E c \in Clients : WritePumpDrain(c)
    \/ \E c \in Clients : WritePumpClose(c)
    \/ \E c \in Clients : WritePumpError(c)

SpecWrite == InitWrite /\ [][NextWrite]_vars

-----------------------------------------------------------------------------
(* SpecDown: SpecHub with the progress the Go scheduler gives.  The hub    *)
(* goroutine and the listener take their next step; a select that has a    *)
(* ctx.Done case takes it once the context is cancelled and nothing else    *)
(* keeps arriving; ReadPump, which looks at the context only between two    *)
(* reads, returns when its blocking ReadMessage fails on the connection     *)
(* that WritePump's deferred function closed.                               *)

HubStep == HubRegister \/ HubUnregister \/ HubBroadcast \/ HubShutdown
ListenerStep == ListenerSpawn \/ ListenerExit

\* The context the websocket route hands to ReadPump and WritePump is done:
\* it is the root context that main gives to NewServer.
PumpContextDone == ctxDone

\* The client whose frames SpecDown follows.
DownSenders == {"c1"}

\* The steps of SpecHub but those of WritePump's writes, which matter to
\* the queues only.
NextDown ==
    \/ \E c \in Clients : Connect(c)
    \/ HubStep
    \/ \E c \in DownSenders : ReadPumpFrame(c)
    \/ \E c \in Clients : ReadPumpExit(c)
    \/ \E c \in Clients : WritePumpExit(c)
    \/ ListenerStep
    \/ \E t \in HubTasks : HubProcessMessage(t)
    \/ cancel

SpecDown ==
    /\ InitHub
    /\ [][NextDown]_vars
    /\ WF_vars(HubStep)
    /\ WF_vars(ListenerStep)
    /\ \A c \in Clients : WF_vars(PumpContextDone /\ WritePumpExit(c))
    /\ \A c \in Clients : WF_vars(conn[c].state = "closed" /\ ReadPumpExit(c))

-----------------------------------------------------------------------------
(* SpecFin: one handler task beside the finalization of a lot.  The        *)
(* repository has no reaper; the step is taken from section 4.8 of the     *)
(* specification (load the lot, finish(), persist) and is built from the   *)
(* code it would call: GetByID's scan, AuctionLot.Finish and the upsert of *)
(* AuctionLotRepository.Save, committed at once.                           *)

FinTasks == {1}

Finalize(l) ==
    /\ l \in DOMAIN auction_lots
    /\ rowLock[l] = 0
    /\ \E t \in Now :
          LET res == Finish(ScanLot(auction_lots[l]))
          IN  /\ t >= auction_lots[l].end_time
              /\ res.err = Nil
              /\ auction_lots' = [auction_lots EXCEPT ![l] = LotRow(res.lot)]
              /\ clock' = t
    /\ UNCHANGED <<al, call, bids, rowLock, task, Send, hubBroadcast, hubvars>>

NextFin ==
    \/ \E t \in FinTasks : TaskNext(t)
    \/ Finalize("L1")

SpecFin == Init /\ [][NextFin]_vars

-----------------------------------------------------------------------------
(* SpecLive: the program as main wires it (hub, handler, server; no timer  *)
(* task), with one handler task that is scheduled whenever it can run.     *)

NextLive == \E t \in FinTasks : TaskNext(t)

SpecLive == Init /\ [][NextLive]_vars /\ WF_vars(NextLive)

-----------------------------------------------------------------------------
(* Properties of AuctionLot.PlaceBid, checked under SpecLot.  `call` holds  *)
(* the last method call: its arguments, the lot before it and its results. *)

Accepted == call.op = "PlaceBid" /\ call.err = Nil

\* C6: PlaceBid accepts a bid only when its amount is strictly greater than
\* the lot's currentPrice before the call, and after an accepted bid the
\* lot's currentPrice equals that bid's amount.
Thm_C6 ==
    Accepted =>
        /\ call.amount > call.before.CurrentPrice
        /\ al.CurrentPrice = call.amount
        /\ call.bid[1].Amount = call.amount

\* C6 witness: a second bid accepted over the price the first one set.
Wit_C6 ==
    /\ Accepted
    /\ call.before.CurrentPrice = 5100000
    /\ call.amount = 5200000
    /\ al.CurrentPrice = 5200000

\* C7: PlaceBid accepts a bid only when the lot is in state active; in any
\* other state it returns the lot-not-active error, records no bid and
\* leaves the lot as it was.
Thm_C7 ==
    call.op = "PlaceBid" =>
        /\ call.err = Nil => call.before.State = StateActive
        /\ call.before.State # StateActive =>
              /\ call.err = ErrLotNotActive
              /\ call.bid = <<>>
              /\ al = call.before

\* C7 witness: a bid above the price refused on a finished lot.
Wit_C7 ==
    /\ call.op = "PlaceBid"
    /\ call.before.State = StateFinished
    /\ call.amount > call.before.CurrentPrice
    /\ call.err = ErrLotNotActive
    /\ al.Bids = <<>>

\* C8: PlaceBid on an active lot whose endTime is not after the clock is
\* rejected, records no bid and does not extend endTime.
CE_C8 ==
    (/\ call.op = "PlaceBid"
     /\ call.before.State = StateActive
     /\ call.at >= call.before.EndTime) =>
        /\ call.err # Nil
        /\ call.bid = <<>>
        /\ al.EndTime = call.before.EndTime

\* C9: a bid accepted at time t sets endTime to exactly t + timeExtension
\* when that is later than the previous endTime, and leaves endTime
\* unchanged otherwise.  t is the timestamp the accepted bid carries.
CE_C9 ==
    Accepted =>
        LET t == call.bid[1].Timestamp
            previous == call.before.EndTime
            extended == t + call.before.TimeExtension
        IN  al.EndTime = IF extended > previous THEN extended ELSE previous

-----------------------------------------------------------------------------
(* Properties of PlaceBidUseCase.Execute and of the bid handler, checked    *)
(* under Spec.  The bid a task creates carries the task's id.              *)

\* Execute of task t has returned and no storage call of it failed.
CleanRun(t) ==
    /\ task[t].returned
    /\ ~ErrorsIs(task[t].retErr, StorageError)
    /\ ~ErrorsIs(task[t].err, StorageError)

\* The committed bid rows that tasks t and u created.
RowsOf(t, u) == {i \in 1..Len(bids) : bids[i].id \in {t, u}}

\* C1: of two Execute calls for the same active lot with the same amount
\* above the lot's price, exactly one returns a bid, the other fails with
\* bid-too-low, and exactly one new bid row is committed.
CE_C1 ==
    \A t, u \in TaskIds :
        (/\ t < u
         /\ CleanRun(t) /\ CleanRun(u)
         /\ task[t].cmd.LotID = "L1" /\ task[u].cmd.LotID = "L1"
         /\ task[t].cmd.Amount = task[u].cmd.Amount
         /\ task[t].cmd.Amount > SeedInitialPrice
         /\ auction_lots["L1"].state = StateActive) =>
            /\ \/ /\ task[t].retBid # <<>>
                  /\ ErrorsIs(task[u].retErr, ErrBidAmountTooLow)
               \/ /\ task[u].retBid # <<>>
                  /\ ErrorsIs(task[t].retErr, ErrBidAmountTooLow)
            /\ Cardinality(RowsOf(t, u)) = 1

\* Execute of task t is between loading the lot and finishing its writes.
InFlight(t) == task[t].pc \in {"PlaceBid", "SaveBid", "SaveLot", "Commit"}

\* C2: for one lot id at most one Execute call at a time is between loading
\* the lot and finishing its writes, and the lot's guard is still held while
\* the bid is inserted and the lot is saved.
CE_C2 ==
    \A t \in TaskIds :
        /\ task[t].pc \in {"SaveBid", "SaveLot"} => task[t].lot[1].mu # Unlocked
        /\ \A u \in TaskIds \ {t} :
              ~(/\ InFlight(t) /\ InFlight(u)
                /\ task[t].cmd.LotID = task[u].cmd.LotID)

\* C3: when the Execute calls on one lot carry pairwise distinct amounts
\* (distinct to the cent, so that their rows differ too), the bids committed
\* for that lot, in commit order, have strictly increasing amounts.
CE_C3 ==
    (\A t, u \in TaskIds :
        (t # u /\ task[t].cmd.LotID = "L1" /\ task[u].cmd.LotID = "L1")
            => ToNumeric2(task[t].cmd.Amount) # ToNumeric2(task[u].cmd.Amount)) =>
        \A i, j \in BidsOfLot("L1") : i < j => bids[i].amount < bids[j].amount

\* One step leaves the two tables as they were.
StorageUnchanged == bids' = bids /\ auction_lots' = auction_lots

\* One step adds the bid row of task t and writes the lot row of task t,
\* whose price is that bid's amount.
BothWritten(t) ==
    /\ bids' = Append(bids, BidRow(task[t].newBid[1]))
    /\ auction_lots' =
          [auction_lots EXCEPT ![task[t].cmd.LotID] = LotRow(task[t].lot[1])]
    /\ auction_lots'[task[t].cmd.LotID].current_price = bids'[Len(bids')].amount

\* C4: whichever step of Execute fails (bid insert, lot save or commit),
\* storage is left as it was; a successful commit makes the new bid row and
\* the updated lot row visible together; storage changes in no other way.
Thm_C4 ==
    [][/\ \A t \in TaskIds :
             /\ (task[t].tx = "open" /\ task'[t].tx = "rolledback")
                   => StorageUnchanged
             /\ (task[t].tx = "open" /\ task'[t].tx = "committed")
                   => BothWritten(t)
       /\ ~StorageUnchanged =>
             \E t \in TaskIds : task[t].tx = "open" /\ task'[t].tx = "committed"
      ]_vars

\* C4 witness: one Execute failed at the lot save after its bid insert and
\* left no row; another committed, and its bid row and lot row are there.
Wit_C4 ==
    \E t, u \in TaskIds :
        /\ task[t].retErr = <<"failed to save updated auction lot", StorageError>>
        /\ task[t].tx = "rolledback"
        /\ task[u].tx = "committed"
        /\ Len(bids) = 1 /\ bids[1].id = u
        /\ auction_lots["L1"].current_price = bids[1].amount
        /\ auction_lots["L1"].last_bid_time = bids[1].timestamp

\* tx.Commit of task t returned an error.
CommitFailed(t) == task[t].err = <<"failed to commit transaction", StorageError>>

\* C5: when the commit fails, Execute returns an error and no bid, and the
\* handler's message for that bid is a server_error, not a lot update.
CE_C5 ==
    \A t \in TaskIds :
        CommitFailed(t) =>
            /\ task[t].retErr # <<>>
            /\ task[t].retBid = <<>>
            /\ task[t].pc = "done"
            /\ task[t].reply[1].Type = MessageTypeServerError

\* The handler of task t produced a lot update for a bid of 5100.00 on the
\* seeded lot, active, stamped T+540s, and it is the only bid row committed.
C10Case(t) ==
    /\ task[t].pc = "done"
    /\ task[t].reply # <<>>
    /\ task[t].reply[1].Type = MessageTypeServerLotUpdate
    /\ task[t].cmd.LotID = "L1" /\ task[t].cmd.Amount = 5100000
    /\ task[t].reads # <<>> /\ task[t].reads[1] = 540
    /\ Len(bids) = 1 /\ bids[1].id = t
    /\ auction_lots["L1"].state = StateActive

\* C10 as stated: the update carries current_price 5100.00, state active and
\* end_time T+570s.
CE_C10 ==
    \A t \in TaskIds :
        C10Case(t) =>
            /\ task[t].reply[1].CurrentPrice = 5100000
            /\ task[t].reply[1].State = StateActive
            /\ task[t].reply[1].EndTime = 570

\* C10 amended: the update carries current_price 5100.00, state active and
\* the seeded end_time T+600s, unless PlaceBid's second clock read plus the
\* extension is past T+600s, when end_time is its third read plus the
\* extension.
Thm_C10 ==
    \A t \in TaskIds :
        C10Case(t) =>
            /\ task[t].reply[1].CurrentPrice = 5100000
            /\ task[t].reply[1].State = StateActive
            /\ task[t].reply[1].EndTime =
                  IF task[t].reads[2] + SeedTimeExtension > SeedEndTime
                  THEN task[t].reads[3] + SeedTimeExtension
                  ELSE SeedEndTime

\* C10 witness: the update of that bid, every clock read at T+540s, handed
\* to the hub with end_time T+600s.
Wit_C10 ==
    \E t \in TaskIds :
        /\ C10Case(t)
        /\ task[t].reads = <<540, 540, 540>>
        /\ task[t].queued
        /\ task[t].reply[1].EndTime = 600
        /\ hubBroadcast[Len(hubBroadcast)].Data = task[t].reply[1]

-----------------------------------------------------------------------------
(* The life cycle of one lot, checked under SpecLot.                       *)

\* The transitions Start, Finish and Cancel are meant to make.
AllowedTransitions ==
    {<<StatePending, StateActive>>, <<StateActive, StateFinished>>,
     <<StatePending, StateCancelled>>, <<StateActive, StateCancelled>>}

\* C11: over any sequence of Start, Finish, Cancel and PlaceBid calls the
\* lot's state changes only along pending->active, active->finished,
\* pending->cancelled or active->cancelled; a finished or cancelled lot
\* never changes state again.
Thm_C11 ==
    [][/\ al'.State # al.State => <<al.State, al'.State>> \in AllowedTransitions
       /\ al.State \in {StateFinished, StateCancelled} => al'.State = al.State
      ]_vars

\* C11 witness: Cancel was called on a finished lot, was refused and left it
\* finished.
Wit_C11 ==
    /\ call.op = "Cancel"
    /\ call.before.State = StateFinished
    /\ call.err = ErrLotAlreadyFinishedOrCancelled
    /\ al.State = StateFinished

-----------------------------------------------------------------------------
(* Finalization against Execute, checked under SpecFin.                    *)

\* C12: once the lot row is persisted as finished, no later step commits a
\* bid for the lot or writes its state back: the row stays finished and the
\* lot's bid rows stay as they are.
CE_C12 ==
    [][auction_lots["L1"].state = StateFinished =>
          /\ auction_lots'["L1"].state = StateFinished
          /\ bids' = bids
      ]_vars

-----------------------------------------------------------------------------
(* Finalization by the running program, checked under SpecLive.            *)

\* The row of L1 is active, its end_time has passed and no bid is in flight.
ExpiredIdle ==
    /\ auction_lots["L1"].state = StateActive
    /\ clock >= auction_lots["L1"].end_time
    /\ \A t \in TaskIds : ~InFlight(t)

\* The row of L1 is finished and an update saying so went to the hub.
Finalized ==
    /\ auction_lots["L1"].state = StateFinished
    /\ \E i \in 1..Len(hubBroadcast) :
          /\ hubBroadcast[i].LotID = "L1"
          /\ hubBroadcast[i].Data.State = StateFinished

\* C13: every active lot whose endTime has passed with no bid in flight is
\* eventually moved to finished and persisted, and a server_lot_update with
\* state finished is broadcast to its lot group.
CE_C13 == ExpiredIdle ~> Finalized

-----------------------------------------------------------------------------
(* C14: the slow-consumer policy of the broadcast loop.                    *)

\* The client is out of the lot's set and its queue is closed.
Evicted(c) == c \in closed /\ c \notin Group(hub.item.LotID)

\* C14: while the hub processes a broadcast, each client of the lot that it
\* visits with a full queue is removed from the registry and its queue is
\* closed, each client it visits with room gets the message appended to its
\* queue, every client the lot had when the loop began is visited whether or
\* not another one was evicted, and the loop can always take its next step:
\* it never waits for a queue.
Thm_C14 ==
    /\ []((Running /\ hub.pc = "broadcast") =>
            /\ ENABLED HubBroadcast
            /\ \A c \in hub.start : c \in hub.todo \/ c \in hub.sent \/ Evicted(c))
    /\ [][hub.pc = "broadcast" =>
            \A c \in hub.todo \ hub'.todo :
               /\ hub'.todo = hub.todo \ {c}
               /\ IF Len(Send[c]) >= SendCapacity
                  THEN /\ c \in closed'
                       /\ c \notin hub'.clients[hub.item.LotID]
                       /\ Send'[c] = Send[c]
                       /\ c \notin hub'.sent
                  ELSE /\ Send'[c] = Append(Send[c], hub.item.Data)
                       /\ c \in hub'.clients[hub.item.LotID]
                       /\ c \notin closed'
                       /\ c \in hub'.sent]_vars

\* The loop over two clients has ended: c1, whose queue was full, is evicted
\* and c3 has the update at the end of its queue.
Wit_C14 ==
    /\ hub.pc = "broadcast"
    /\ hub.todo = {}
    /\ hub.start = {"c1", "c3"}
    /\ Evicted("c1")
    /\ Len(Send["c1"]) = SendCapacity
    /\ hub.sent = {"c3"}
    /\ "c3" \notin closed
    /\ Send["c3"] # <<>>
    /\ Send["c3"][Len(Send["c3"])] = hub.item.Data

-----------------------------------------------------------------------------
(* C15: the update after an accepted bid.                                  *)

\* Task t has finished handling a frame for which Execute returned a bid.
BidHandled(t) == task[t].pc = "done" /\ task[t].returned /\ task[t].retBid # <<>>

\* C15: once a handler task has finished a client_bid frame for which Execute
\* returned a bid, the hub has received the lot's server_lot_update for
\* broadcast (the only way it can reach the queues of the lot's clients, as
\* the task does not try again).
CE_C15 == \A t \in HubTasks : BidHandled(t) => task[t].queued

-----------------------------------------------------------------------------
(* C16: a bid rejected by the domain.                                      *)

DomainErrors == {ErrLotNotFound, ErrLotNotActive, ErrBidAmountTooLow}

\* Execute of task t has returned one of the domain errors.
DomainRejected(t) ==
    /\ task[t].pc = "done"
    /\ task[t].returned
    /\ task[t].retErr # <<>>
    /\ task[t].retErr[Len(task[t].retErr)] \in DomainErrors

\* C16: when Execute returns a domain error (lot not found, lot not active,
\* bid too low) it returns no bid, its transaction is rolled back with
\* nothing written in it, no bid row of the call exists, the step that
\* rejects changes no row of storage and hands nothing to the hub, and the
\* only message is a server_error offered to the queue of the bidding client.
Thm_C16 ==
    /\ [](\A t \in TaskIds : DomainRejected(t) =>
            /\ task[t].tx = "rolledback"
            /\ task[t].retBid = <<>>
            /\ task[t].txBids = <<>> /\ task[t].txLot = <<>>
            /\ \A i \in 1..Len(bids) : bids[i].id # t
            /\ task[t].reply = <<ServerErrorMessage(task[t].retErr)>>)
    /\ [][\A t \in TaskIds : (~DomainRejected(t) /\ DomainRejected(t)') =>
            /\ StorageUnchanged
            /\ hubBroadcast' = hubBroadcast
            /\ \A c \in Clients \ {task[t].client} : Send'[c] = Send[c]
            /\ Send'[task[t].client] \in
                 {Send[task[t].client],
                  Append(Send[task[t].client], task'[t].reply[1])}]_vars

\* One bid was rejected as too low and another because its lot does not
\* exist; both bidders were sent the error.
Wit_C16 ==
    \E t, u \in TaskIds :
       /\ DomainRejected(t) /\ ErrorsIs(task[t].retErr, ErrBidAmountTooLow)
       /\ DomainRejected(u) /\ ErrorsIs(task[u].retErr, ErrLotNotFound)
       /\ task[t].queued /\ task[u].queued

-----------------------------------------------------------------------------
(* C17: the anti-spoof test.                                               *)

\* Task t was started for a client_bid frame that names another lot than
\* the one of its connection.
Spoofed(t) ==
    /\ task[t].pc # "idle"
    /\ task[t].cmd.LotID # ClientLotID(task[t].client)

\* C17: a client_bid frame whose lot_id differs from the lot id of its
\* connection ends in the handler: Execute is never entered (no transaction,
\* no lot loaded, nothing returned), no bid row of the task exists, the step
\* that handles the frame changes no row of storage and hands nothing to the
\* hub, and the only message is the server_error "lot ID mismatch" offered
\* to the queue of the sending client.
Thm_C17 ==
    /\ [](\A t \in TaskIds : Spoofed(t) =>
            /\ task[t].pc = "done"
            /\ ~task[t].returned
            /\ task[t].tx = "none"
            /\ task[t].lot = <<>> /\ task[t].newBid = <<>>
            /\ \A i \in 1..Len(bids) : bids[i].id # t
            /\ task[t].reply = <<ServerErrorMessage(<<"lot ID mismatch">>)>>)
    /\ [][\A t \in TaskIds : (~Spoofed(t) /\ Spoofed(t)') =>
            /\ StorageUnchanged
            /\ hubBroadcast' = hubBroadcast
            /\ \A c \in Clients \ {task'[t].client} : Send'[c] = Send[c]
            /\ Send'[task'[t].client] \in
                 {Send[task'[t].client],
                  Append(Send[task'[t].client], task'[t].reply[1])}]_vars

\* c1, connected to L1, sent a bid for L2 and has the error in its queue,
\* while another task committed a bid for L1.
Wit_C17 ==
    \E t, u \in TaskIds :
       /\ Spoofed(t) /\ task[t].client = "c1" /\ task[t].cmd.LotID = "L2"
       /\ task[t].queued
       /\ Send["c1"] # <<>>
       /\ task[u].tx = "committed"

-----------------------------------------------------------------------------
(* C18: a frame that ends in an error.                                     *)

\* This step is the end of task t for a frame that ends in an error: the
\* task stops without a bid returned, or the process dies under it.
EndsInError(t) ==
    /\ task[t].pc = "process"
    /\ \/ panicked' /\ ~panicked
       \/ task'[t].pc = "done" /\ task'[t].retBid = <<>>

\* C18: the step that ends a frame in an error leaves the server running
\* with the hub's registry and the queue of every other client as they were,
\* and the queue of the originating client either as it was or longer by the
\* one server_error.
CE_C18 ==
    [][\A t \in HubTasks : EndsInError(t) =>
          /\ ~panicked'
          /\ hub'.clients = hub.clients
          /\ closed' = closed
          /\ \A c \in Clients \ {task[t].client} : Send'[c] = Send[c]
          /\ Send'[task[t].client] \in
               {Send[task[t].client],
                Append(Send[task[t].client], task'[t].reply[1])}]_vars

-----------------------------------------------------------------------------
(* C19: the hub's shutdown.                                                *)

\* The clients in the hub's registry.
Registered == UNION {hub.clients[l] : l \in DOMAIN hub.clients}

\* C19: when the hub has exited on its shutdown signal, the outbound queue
\* of every client still in its registry is closed.
CE_C19 == hub.pc = "exited" => Registered \subseteq closed

-----------------------------------------------------------------------------
(* C20: the non-blocking calls.                                            *)

\* C20: while the process runs, a caller that has arrived at RegisterClient
\* (a new connection), at UnregisterClient (a pump returning), at
\* BroadcastMessageToLot (a handler task) or at the reader's enqueue on
\* InboundMessages can take its step whatever the hub and the listener are
\* doing; and when the receiver is not waiting the step leaves the receiver
\* as it is (the item is dropped), while a waiting hub receives the item.
Thm_C20 ==
    /\ [](Running =>
            /\ \A c \in Clients :
                  /\ conn[c].state = "none" => ENABLED Connect(c)
                  /\ conn[c].reader = "running" => ENABLED ReadPumpExit(c)
                  /\ conn[c].writer = "running" => ENABLED WritePumpExit(c)
                  /\ (conn[c].reader = "running" /\ conn[c].state = "open"
                        /\ IdleTasks # {}) => ENABLED ReadPumpFrame(c)
            /\ \A t \in HubTasks :
                  task[t].pc = "process" => ENABLED HubProcessMessage(t))
    /\ [][/\ \A c \in Clients :
               conn'[c] # conn[c] =>
                  IF HubWaiting
                  THEN /\ hub'.item = c
                       /\ hub'.pc = (IF conn[c].state = "none"
                                     THEN "register" ELSE "unregister")
                  ELSE hub' = hub
          /\ \A t \in HubTasks :
               (task[t].pc = "process" /\ task'[t].pc = "done" /\ ~HubWaiting)
                  => hub' = hub
          /\ ~ListenerWaiting =>
               \/ listener' = listener
               \/ listener.pc = "spawn" /\ listener'.pc = "select"]_vars

\* The hub was busy twice: the registration of c2 was dropped (its connection
\* was closed, its pumps were started all the same) and so was the update of
\* a handler task.
Wit_C20 ==
    /\ conn["c2"] = [state |-> "closed", reader |-> "running", writer |-> "running"]
    /\ "c2" \notin Registered
    /\ \E t \in HubTasks : BidHandled(t) /\ ~task[t].queued

-----------------------------------------------------------------------------
(* C21: the order of the messages on a socket.                             *)

RECURSIVE Flatten(_)
Flatten(frames) ==
    IF frames = <<>> THEN <<>> ELSE Head(frames) \o Flatten(Tail(frames))

\* The messages written to the socket of c, in the order they were written.
Written(c) == Flatten(socket[c])

\* ... followed by those WritePump holds in its open frame and those still
\* in the queue.
Stream(c) == Written(c) \o wp[c].frame \o Send[c]

IsUpdate(m) == m.Type = MessageTypeServerLotUpdate
Places(seq, m) == {i \in 1..Len(seq) : seq[i] = m}

\* C21: a message enters a client's stream (socket, open frame, queue) only
\* at its end, at the moment the hub processes the broadcast or the handler
\* sends an error; WritePump moves messages from the queue to the socket
\* without changing the stream (at most it loses its open frame when the
\* write fails, and then writes no more), so what is written is in the order
\* of the hub's processing: no update is in a stream twice, and two clients
\* of the same lot have their common updates in the same order.
Thm_C21 ==
    /\ [](\A c \in Clients : \A i, j \in 1..Len(Stream(c)) :
             (i < j /\ IsUpdate(Stream(c)[i])) => Stream(c)[i] # Stream(c)[j])
    /\ [](\A c, d \in Clients : \A a, b \in 1..Len(Written(c)) :
             (a < b /\ Places(Written(d), Written(c)[a]) # {}
                    /\ Places(Written(d), Written(c)[b]) # {}
                    /\ IsUpdate(Written(c)[a]) /\ IsUpdate(Written(c)[b]))
             => \A x \in Places(Written(d), Written(c)[a]),
                   y \in Places(Written(d), Written(c)[b]) : x < y)
    /\ [][\A c \in Clients :
            /\ \/ Written(c)' = Written(c)
               \/ Written(c)' = Written(c) \o wp[c].frame
            /\ \/ Stream(c)' = Stream(c)
               \/ /\ hub.pc = "broadcast"
                  /\ Stream(c)' = Append(Stream(c), hub.item.Data)
               \/ \E t \in TaskIds :
                     /\ task[t].pc = "process" /\ task[t].client = c
                     /\ task'[t].reply # <<>>
                     /\ ~IsUpdate(task'[t].reply[1])
                     /\ Stream(c)' = Append(Stream(c), task'[t].reply[1])
               \/ /\ wp[c].pc = "drain"
                  /\ conn'[c].writer = "exited"
                  /\ Stream(c)' = Written(c) \o Send[c]]_vars

\* WritePump of c3 received the first update, found the second one in the
\* queue and wrote both in one frame, in the order the hub processed them;
\* c1 has them in the same order.
Wit_C21 ==
    \E t, u \in TaskIds :
       /\ t # u
       /\ task[t].reply # <<>> /\ task[u].reply # <<>>
       /\ IsUpdate(task[t].reply[1]) /\ IsUpdate(task[u].reply[1])
       /\ socket["c3"] = << <<task[t].reply[1], task[u].reply[1]>> >>
       /\ Stream("c1") = <<task[t].reply[1], task[u].reply[1]>>

-----------------------------------------------------------------------------
(* C22: the end of a connection.                                           *)

\* Both pumps of c have returned, so each has made its one call of
\* UnregisterClient, and the hub is back in its select with nothing in hand.
PumpsGone(c) ==
    /\ conn[c].reader = "exited"
    /\ conn[c].writer = "exited"
    /\ HubWaiting

\* C22: once the reader pump of a client has terminated, and its writer pump
\* after it, and the hub has dealt with what it was handed, the client is no
\* longer in the hub's registry.
CE_C22 == \A c \in Clients : PumpsGone(c) => c \notin Registered

-----------------------------------------------------------------------------
(* C23: termination after the shutdown signal.                             *)

\* The hub loop, the listen loop and both pumps of every connection that
\* was made have returned (or the process is gone altogether).
AllStopped ==
    \/ panicked
    \/ /\ hub.pc = "exited"
       /\ listener.pc = "exited"
       /\ \A c \in Clients :
             conn[c].state # "none" =>
                conn[c].reader = "exited" /\ conn[c].writer = "exited"

-----------------------------------------------------------------------------
(* C24: sends on a closed queue.                                           *)

\* C24: no send on a client's outbound queue has hit a queue that was
\* already closed (the send would panic and end the process).
CE_C24 == ~panicked

-----------------------------------------------------------------------------
(* C25: the last bid in the snapshot.                                      *)

\* The row of the bid of lot l that was committed last.
LastBidRow(l) ==
    bids[CHOOSE i \in BidsOfLot(l) : \A j \in BidsOfLot(l) : j <= i]

\* C25: when GetLotState finishes for a lot that has committed bids, the
\* snapshot's lastBidAmount, lastBidUserId and lastBidTime are the amount,
\* user id and timestamp of the bid committed last.
CE_C25 ==
    [][\A t \in TaskIds :
          (/\ task[t].pc = "GetLatestBid"
           /\ task'[t].pc = "Broadcast"
           /\ BidsOfLot(task[t].cmd.LotID) # {})
          => LET last == LastBidRow(task[t].cmd.LotID)
                 dto == task'[t].dto[1]
             IN  /\ dto.LastBidAmount = last.amount
                 /\ dto.LastBidUserID = last.user_id
                 /\ dto.LastBidTime = last.timestamp]_vars

-----------------------------------------------------------------------------
(* C26: timestamps and the order of insertion.                             *)

\* C26: of two committed bids of one lot, the one committed later does not
\* carry an earlier timestamp.
CE_C26 ==
    \A l \in LotIds : \A i, j \in BidsOfLot(l) :
       i < j => bids[i].timestamp <= bids[j].timestamp

-----------------------------------------------------------------------------
(* C27: a write that fails after the bid was accepted.                     *)

\* The bid insert, the lot save or the commit of task t failed.
StorageFailed(t) ==
    /\ task[t].err # <<>>
    /\ task[t].err[1] \in {"failed to save new bid",
                          "failed to save updated auction lot",
                          "failed to commit transaction"}

\* C27: when the bid insert, the lot save or the commit fails after PlaceBid
\* accepted the bid, the failing step changes no committed row, the
\* transaction is rolled back with its writes, its row lock and the lot
\* object that PlaceBid changed are gone and no bid row of the call exists;
\* every later GetByID of Execute and of GetLotState builds its lot from the
\* committed row, so as long as nothing was committed it sees the price, end
\* time and last bid time the lot had before the bid.
Thm_C27 ==
    /\ [](\A t \in TaskIds : StorageFailed(t) =>
            /\ task[t].tx = "rolledback"
            /\ task[t].txBids = <<>> /\ task[t].txLot = <<>>
            /\ task[t].lot = <<>>
            /\ \A l \in LotIds : rowLock[l] # t
            /\ \A i \in 1..Len(bids) : bids[i].id # t)
    /\ []((\A t \in TaskIds : task[t].tx # "committed") =>
            /\ bids = <<>>
            /\ \E st \in AuctionLotState : auction_lots["L1"] = SeedRow(st))
    /\ [][\A t \in TaskIds :
            /\ (~StorageFailed(t) /\ StorageFailed(t)') => StorageUnchanged
            /\ (task[t].pc = "GetByID" /\ task'[t].pc = "PlaceBid") =>
                  task'[t].lot = <<ScanLot(auction_lots[task[t].cmd.LotID])>>
            /\ (task[t].pc = "GetLotState" /\ task'[t].pc = "GetLatestBid") =>
                  task'[t].dto =
                     <<LotStateDTO(ScanLot(auction_lots[task[t].cmd.LotID]))>>]_vars

\* The commit of task t failed, and the GetLotState that followed shows the
\* lot as it was before the bid.
Wit_C27 ==
    \E t \in TaskIds :
       /\ CommitFailed(t)
       /\ task[t].pc = "GetLatestBid"
       /\ task[t].cmd.Amount > SeedInitialPrice
       /\ task[t].dto[1].CurrentPrice = SeedInitialPrice
       /\ task[t].dto[1].EndTime = SeedEndTime
       /\ task[t].dto[1].LastBidTime = NullTime
\* Execute of task t returned the input error of step 1.
AmountRefused(t) == task[t].returned /\ task[t].retErr = <<ErrInvalidAmount>>

\* C28: Execute with an amount of zero or less returns ErrInvalidAmount (and
\* no bid) in its first step: no transaction was begun, no lot was loaded, no
\* row lock is held, and the step leaves the bids and the lot rows as they
\* were; no later step of the call touches storage, so no bid row of the
\* call ever exists.
Thm_C28 ==
    /\ [](\A t \in TaskIds : AmountRefused(t) =>
            /\ task[t].cmd.Amount <= 0
            /\ task[t].retBid = <<>>
            /\ task[t].tx = "none"
            /\ task[t].lot = <<>> /\ task[t].txBids = <<>> /\ task[t].txLot = <<>>
            /\ \A l \in LotIds : rowLock[l] # t
            /\ \A i \in 1..Len(bids) : bids[i].id # t)
    /\ [][\A t \in TaskIds :
            /\ (task[t].pc = "Execute" /\ task[t].cmd.Amount <= 0
                   /\ task'[t] # task[t])
                  => AmountRefused(t)' /\ StorageUnchanged /\ rowLock' = rowLock
            /\ (AmountRefused(t) /\ task'[t] # task[t]) => StorageUnchanged]_vars

\* A bid of amount 0 on the active lot was refused with ErrInvalidAmount.
Wit_C28 ==
    \E t \in TaskIds :
       /\ AmountRefused(t)
       /\ task[t].cmd = [LotID |-> "L1", UserID |-> "U1", Amount |-> 0]
       /\ task[t].tx = "none"
       /\ auction_lots["L1"].state = StateActive

\* PlaceBid was called on an active lot with a minimum increment and an amount
\* above the price but short of price + minIncrement.
BelowIncrement ==
    /\ call.op = "PlaceBid"
    /\ call.before.State = StateActive
    /\ call.minIncrement > 0
    /\ call.before.CurrentPrice < call.amount
    /\ call.amount < call.before.CurrentPrice + call.minIncrement

\* C29: PlaceBid on an active lot with minIncrement > 0 and
\* currentPrice < amount < currentPrice + minIncrement is rejected with
\* ErrBidIncrementTooSmall and leaves the lot unchanged.
CE_C29 ==
    BelowIncrement =>
        /\ call.err = ErrBidIncrementTooSmall
        /\ call.bid = <<>>
        /\ al = call.before

\* C30: a lifecycle method called in a state where it is not allowed returns
\* its own error and leaves the lot as it was: Start on a lot that is not
\* pending returns ErrLotAlreadyStartedOrFinished, Finish on a lot that is
\* not active returns ErrLotNotActive, Cancel on a finished or cancelled lot
\* returns ErrLotAlreadyFinishedOrCancelled.
Thm_C30 ==
    /\ (call.op = "Start" /\ call.before.State # StatePending) =>
          call.err = ErrLotAlreadyStartedOrFinished /\ al = call.before
    /\ (call.op = "Finish" /\ call.before.State # StateActive) =>
          call.err = ErrLotNotActive /\ al = call.before
    /\ (call.op = "Cancel"
          /\ call.before.State \in {StateFinished, StateCancelled}) =>
          call.err = ErrLotAlreadyFinishedOrCancelled /\ al = call.before

\* C30 witness: Finish was called on a pending lot, was refused with
\* ErrLotNotActive and left it pending.
Wit_C30 ==
    /\ call.op = "Finish"
    /\ call.before.State = StatePending
    /\ call.err = ErrLotNotActive
    /\ al = call.before

-----------------------------------------------------------------------------
(* Registration, checked under SpecHub.                                    *)

\* The websocket route made a client for c and passed it to RegisterClient,
\* both pumps of c are still running, and nothing has closed its queue.
Connected(c) ==
    /\ conn[c].reader = "running"
    /\ conn[c].writer = "running"
    /\ c \notin closed

-----------------------------------------------------------------------------
(* The price floor, checked under SpecLot.                                 *)

\* C32: a lot made by NewAuctionLot (CurrentPrice = InitialPrice) and changed
\* only by PlaceBid, Start, Finish and Cancel keeps the InitialPrice it was
\* made with and has CurrentPrice >= InitialPrice in every state.
Thm_C32 ==
    /\ al.InitialPrice = SeedInitialPrice
    /\ al.CurrentPrice >= al.InitialPrice

\* C32 witness: after a bid was accepted, a bid below the initial price was
\* made on the active lot and refused, the price staying above the floor.
Wit_C32 ==
    /\ call.op = "PlaceBid"
    /\ call.before.State = StateActive
    /\ call.before.Bids # <<>>
    /\ call.amount < al.InitialPrice
    /\ call.err = ErrBidAmountTooLow
    /\ al.CurrentPrice > al.InitialPrice

-----------------------------------------------------------------------------
(* The transaction of Execute, checked under SpecTx.                       *)

\* The transaction of task t has been ended, by Commit or by Rollback.
Resolved(t) == task[t].tx \in {"committed", "rolledback"}

\* C33: a transaction begun by Execute is resolved exactly once on every
\* path.  Once Execute has returned or panicked its transaction is not open;
\* the transaction goes from open to committed or to rolled back in one
\* step and never changes afterwards; it is committed only when no step
\* returned an error, it is rolled back when a step returned an error or
\* panicked, and a call none of whose steps failed ends in tx.Commit (which
\* commits, or fails and leaves the transaction rolled back).
Thm_C33 ==
    /\ [](\A t \in TaskIds :
            /\ (task[t].returned \/ task[t].pc = "panicked") => task[t].tx # "open"
            /\ task[t].tx = "open" <=> task[t].pc \in TxSteps \cup {"Commit"}
            /\ task[t].tx = "committed" => task[t].err = <<>>
            /\ (task[t].returned /\ task[t].err # <<>> /\ task[t].tx # "none")
                  => task[t].tx = "rolledback"
            /\ (task[t].returned /\ task[t].err = <<>>) => task[t].tx = "committed")
    /\ [][\A t \in TaskIds :
            /\ task'[t].tx # task[t].tx =>
                  \/ task[t].tx = "none" /\ task'[t].tx = "open"
                  \/ task[t].tx = "open" /\ Resolved(t)'
            /\ Resolved(t) => task'[t].tx = task[t].tx
            /\ (task[t].pc \in TxSteps /\ task'[t].pc = "panicked")
                  => task'[t].tx = "rolledback"
            /\ (task[t].pc = "Commit" /\ task'[t] # task[t])
                  => (task'[t].tx = "committed" \/ CommitFailed(t)')]_vars

\* C33 witness: one Execute call committed its transaction and returned its
\* bid, and another one, on the same lot, panicked after its bid insert and
\* had its transaction rolled back.
Wit_C33 ==
    \E t, u \in TaskIds :
       /\ task[t].returned /\ task[t].tx = "committed" /\ task[t].retBid # <<>>
       /\ task[u].pc = "panicked" /\ task[u].tx = "rolledback"
       /\ task[u].cmd.LotID = task[t].cmd.LotID
       /\ \E i \in 1..Len(bids) : bids[i].id = t
       /\ \A i \in 1..Len(bids) : bids[i].id # u

-----------------------------------------------------------------------------
(* The persisted price and end time under concurrent commits, checked      *)
(* under Spec.                                                             *)

\* C34: after any interleaving of committed Execute calls on a lot, the
\* current_price of the lot row equals the highest amount among the lot's
\* committed bid rows.
CE_C34 ==
    \A l \in DOMAIN auction_lots :
       BidsOfLot(l) # {} =>
          /\ \E i \in BidsOfLot(l) : auction_lots[l].current_price = bids[i].amount
          /\ \A i \in BidsOfLot(l) : bids[i].amount <= auction_lots[l].current_price

\* C39: the persisted end_time of a lot never decreases: every step, each
\* commit among them, leaves end_time at or above the end_time persisted
\* before it.
CE_C39 ==
    [][\A l \in DOMAIN auction_lots :
          auction_lots'[l].end_time >= auction_lots[l].end_time]_vars

\* Every commit so far succeeded and the committed bids of lot L1 have
\* strictly increasing amounts in commit order: each bid was accepted against
\* the price the one before it had committed.
OrderlyCommits ==
    /\ \A t \in TaskIds : ~CommitFailed(t)
    /\ \A i, j \in BidsOfLot("L1") : i < j => bids[i].amount < bids[j].amount

\* C35: for a subscriber of a lot, the current_price values of the
\* server_lot_update messages enqueued to it never decrease, also when
\* several handler tasks for accepted bids read the lot state and broadcast
\* concurrently.  The hub enqueues the broadcasts of a lot to each subscriber
\* in the order it received them, which is the order of hubBroadcast.
CE_C35 ==
    OrderlyCommits =>
       \A i, j \in 1..Len(hubBroadcast) :
          (i < j /\ hubBroadcast[i].LotID = hubBroadcast[j].LotID) =>
             hubBroadcast[i].Data.CurrentPrice <= hubBroadcast[j].Data.CurrentPrice

-----------------------------------------------------------------------------
(* Closing a client's queue, checked under SpecHub.                        *)

\* C36: a client's queue is closed at most once.  The hub's goroutine never
\* panics on a close; a client whose queue is closed is in no set of the
\* registry; and when Run handles an unregister request for a client whose
\* queue is already closed (after an eviction or a first unregister), the
\* registry, the set of closed queues and every queue are left as they were.
Thm_C36 ==
    /\ [](hub.pc # "panicked")
    /\ [](\A c \in closed : \A l \in DOMAIN hub.clients : c \notin hub.clients[l])
    /\ [][(hub.pc = "unregister" /\ hub.item \in closed /\ hub' # hub) =>
            /\ hub'.pc = "select"
            /\ hub'.clients = hub.clients
            /\ closed' = closed
            /\ Send' = Send
            /\ panicked' = panicked]_vars

\* C36 witness: the hub has handled the second unregister request of c1,
\* sent by its WritePump after the one of its ReadPump had closed the queue.
Wit_C36 ==
    /\ conn["c1"].reader = "exited"
    /\ conn["c1"].writer = "exited"
    /\ "c1" \in closed
    /\ hub.pc = "unregister"
    /\ hub.item = "c1"
    /\ ENABLED HubUnregister

-----------------------------------------------------------------------------
(* The shape of the registry, checked under SpecHub.                       *)

\* C37: whenever the hub has finished with a register, unregister or
\* broadcast message and is back in its select, every lot id present in the
\* registry maps to a non-empty set of clients.
CE_C37 ==
    HubWaiting => \A l \in DOMAIN hub.clients : hub.clients[l] # {}

\* Run takes a step of its broadcast case.
BroadcastStep == hub.pc = "broadcast" /\ hub' # hub

\* C38: a broadcast for lot L enqueues the message only to clients
\* registered under L, each getting exactly that message at the end of its
\* queue; the queues, the closed queues and the sets of the clients of every
\* other lot are left as they were; and a client is only ever a member of
\* the set keyed by its own lot id.
Thm_C38 ==
    /\ [](\A l \in DOMAIN hub.clients : \A c \in hub.clients[l] : ClientLotID(c) = l)
    /\ [][BroadcastStep =>
            /\ \A c \in Clients :
                  Send'[c] # Send[c] =>
                     /\ c \in Group(hub.item.LotID)
                     /\ Send'[c] = Append(Send[c], hub.item.Data)
            /\ \A c \in Clients :
                  ClientLotID(c) # hub.item.LotID =>
                     /\ Send'[c] = Send[c]
                     /\ c \in closed' <=> c \in closed
            /\ DOMAIN hub'.clients = DOMAIN hub.clients
            /\ \A l \in DOMAIN hub.clients :
                  l # hub.item.LotID => hub'.clients[l] = hub.clients[l]]_vars

\* C38 witness: the loop of a broadcast for L1 has ended with the message
\* enqueued to a client of L1, while c2 is registered for L2 and its queue
\* is still empty.
Wit_C38 ==
    /\ hub.pc = "broadcast"
    /\ hub.item.LotID = "L1"
    /\ hub.todo = {}
    /\ \E c \in hub.sent : Send[c] # <<>> /\ Send[c][Len(Send[c])] = hub.item.Data
    /\ "c2" \in Group("L2")
    /\ Send["c2"] = <<>>

=============================================================================
